---- MODULE Spec2Model ----
(***************************************************************************)
(* A model of zcashd-walletdb-parser: the Berkeley DB Btree page decoder.  *)
(* Byte buffers are sequences of 0..255; byte offsets are 0-based as in    *)
(* the source, so page[i] of the source is B(page, i) here.                *)
(*                                                                         *)
(* Outcomes of a function: Ok(v), Err(msg) for an anyhow error (msg is the *)
(* fixed part of its message), Panic for a slice index out of range.       *)
(***************************************************************************)
EXTENDS Integers, Sequences, FiniteSets, TLC

VARIABLES
    all,        \* the bytes under decoding: the file image, or the buffer handed to a parser
    ps,         \* page size in bytes
    e,          \* byte order in use: "Le" or "Be"
    mode,       \* the SalvageMode the caller selected
    pc,         \* position of the running function
    r,          \* the OverflowRef being materialized
    pg,         \* current page number (loop variable `pg`)
    rem,        \* read_overflow_chain: bytes still needed
    out,        \* read_overflow_chain: bytes collected so far
    visited,    \* history: page numbers read so far, in order
    delivered,  \* main: the pairs handed back so far, with their page
    res,        \* the function's return value, NoRes while running
    cfg,        \* history: the layout the buffer was built from
    meta,       \* main: the BtreeMeta parsed from page 0, NoMeta before
    arg         \* the scalar argument of the function called: an offset, a type code

vars == <<all, ps, e, mode, pc, r, pg, rem, out, visited, delivered, res, cfg, meta, arg>>

----------------------------------------------------------------------------
(* Outcomes *)

NoRes == [tag |-> "None"]
Ok(v) == [tag |-> "Ok", val |-> v]
Err(m) == [tag |-> "Err", err |-> m]
Panic == [tag |-> "Panic"]
PanicMsg(msg) == [tag |-> "Panic", msg |-> msg]
IsPanic(x) == x.tag = "Panic"
IsOk(x) == x.tag = "Ok"
IsErr(x) == x.tag = "Err"

----------------------------------------------------------------------------
(* Bytes *)

B(s, i) == s[i + 1]
\* &s[a..b]; callers check a <= b <= Len(s) first, as Rust would panic otherwise
Slice(s, a, b) == SubSeq(s, a + 1, b)

Endian == {"Le", "Be"}

u16e(en, b) ==
    IF en = "Le" THEN b[1] + 256 * b[2]
    ELSE 256 * b[1] + b[2]

u32e(en, b) ==
    IF en = "Le" THEN b[1] + 256 * b[2] + 65536 * b[3] + 16777216 * b[4]
    ELSE 16777216 * b[1] + 65536 * b[2] + 256 * b[3] + b[4]

\* Writers of the on-disk integers (the layouts the readers above decode).
Enc16(en, v) ==
    IF en = "Le" THEN <<v % 256, (v \div 256) % 256>>
    ELSE <<(v \div 256) % 256, v % 256>>

Enc32(en, v) ==
    IF en = "Le"
    THEN <<v % 256, (v \div 256) % 256, (v \div 65536) % 256, (v \div 16777216) % 256>>
    ELSE <<(v \div 16777216) % 256, (v \div 65536) % 256, (v \div 256) % 256, v % 256>>

Zeros(n) == [i \in 1..n |-> 0]
\* s cut or zero-padded to exactly n bytes
Fit(s, n) == IF Len(s) >= n THEN SubSeq(s, 1, n) ELSE s \o Zeros(n - Len(s))

----------------------------------------------------------------------------
(* page.rs *)

Meta == [k |-> "Meta"]
Internal == [k |-> "Internal"]
Leaf == [k |-> "Leaf"]
Overflow == [k |-> "Overflow"]
Other(x) == [k |-> "Other", x |-> x]

\* impl From<u8> for PageType
from(t) ==
    CASE t = 9 -> Meta
      [] t = 3 -> Internal
      [] t = 5 -> Leaf
      [] t = 4 -> Overflow
      [] OTHER -> Other(t)

\* PageType::code
code(p) ==
    CASE p.k = "Meta" -> 9
      [] p.k = "Internal" -> 3
      [] p.k = "Leaf" -> 2
      [] p.k = "Overflow" -> 4
      [] OTHER -> p.x

\* PageType::from_flags: the type is the low 5 bits of the flags word
from_flags(flags) ==
    LET t == flags % 32 IN
    CASE t = 9 -> Meta
      [] t = 3 -> Internal
      [] t = 2 -> Leaf
      [] t = 4 -> Overflow
      [] OTHER -> Other(t)

----------------------------------------------------------------------------
(* constants.rs, util.rs *)

BTDATAOFF == 28

parse_page_header_LowerUnchecked(page, endian) ==
    IF Len(page) < 28 THEN Err("short page")
    ELSE
        LET flags == u32e(endian, Slice(page, 20, 24))
            lower == u16e(endian, Slice(page, 24, 26))
            upper == u16e(endian, Slice(page, 26, 28))
            ptype == from_flags(flags)
            hdr(n) == [lsn_file |-> u32e(endian, Slice(page, 0, 4)),
                       lsn_off |-> u32e(endian, Slice(page, 4, 8)),
                       pgno |-> u32e(endian, Slice(page, 8, 12)),
                       prev |-> u32e(endian, Slice(page, 12, 16)),
                       next |-> u32e(endian, Slice(page, 16, 20)),
                       flags |-> flags, lower |-> lower, upper |-> upper,
                       nslots |-> n, ptype |-> ptype]
        IN  IF ptype \in {Leaf, Internal}
            THEN IF lower < BTDATAOFF THEN Err("lower too small")
                 ELSE IF upper > Len(page) THEN Err("upper beyond page")
                 ELSE Ok(hdr(((lower - BTDATAOFF) \div 2) % 65536))
            ELSE Ok(hdr(0))

parse_page_header(page, endian) ==
    IF Len(page) < 28 THEN Err("short page")
    ELSE
        LET flags == u32e(endian, Slice(page, 20, 24))
            lower == u16e(endian, Slice(page, 24, 26))
            upper == u16e(endian, Slice(page, 26, 28))
            ptype == from_flags(flags)
            hdr(n) == [lsn_file |-> u32e(endian, Slice(page, 0, 4)),
                       lsn_off |-> u32e(endian, Slice(page, 4, 8)),
                       pgno |-> u32e(endian, Slice(page, 8, 12)),
                       prev |-> u32e(endian, Slice(page, 12, 16)),
                       next |-> u32e(endian, Slice(page, 16, 20)),
                       flags |-> flags, lower |-> lower, upper |-> upper,
                       nslots |-> n, ptype |-> ptype]
        IN  \* only leaf/internal pages have their bounds enforced
            IF ptype \in {Leaf, Internal}
            THEN IF lower < BTDATAOFF THEN Err("lower too small")
                 ELSE IF lower > upper THEN Err("lower > upper")
                 ELSE IF upper > Len(page) THEN Err("upper beyond page")
                 ELSE Ok(hdr(((lower - BTDATAOFF) \div 2) % 65536))
            ELSE Ok(hdr(0))

\* &all[i * ps..(i + 1) * ps]: panics when the range leaves the image
PageInImage(all_, ps_, pgno) == (pgno + 1) * ps_ <= Len(all_)
page_slice(all_, ps_, pgno) == Slice(all_, pgno * ps_, (pgno + 1) * ps_)

\* The 28-byte generic page header as laid out on disk (PageHeader's field offsets).
HeaderBytes(en, h) ==
    Enc32(en, h.lsn_file) \o Enc32(en, h.lsn_off) \o Enc32(en, h.pgno) \o
    Enc32(en, h.prev) \o Enc32(en, h.next) \o Enc32(en, h.flags) \o
    Enc16(en, h.lower) \o Enc16(en, h.upper)

Hdr(pgno, next, flags, lower, upper) ==
    [lsn_file |-> 1, lsn_off |-> 0, pgno |-> pgno, prev |-> 0, next |-> next,
     flags |-> flags, lower |-> lower, upper |-> upper]
BTREE_MAGIC == 340322   \* 0x0005_3162

detect_endian_LeOnly(buf) ==
    IF Len(buf) < 16 THEN "None"
    ELSE IF u32e("Le", Slice(buf, 12, 16)) = BTREE_MAGIC THEN "Le"
    ELSE "None"

\* Some(Le), Some(Be) or None
detect_endian(buf) ==
    IF Len(buf) < 16 THEN "None"
    ELSE IF u32e("Le", Slice(buf, 12, 16)) = BTREE_MAGIC THEN "Le"
    ELSE IF u32e("Be", Slice(buf, 12, 16)) = BTREE_MAGIC THEN "Be"
    ELSE "None"

----------------------------------------------------------------------------
(* headers.rs *)

parse_btree_meta_page0(page) ==
    IF Len(page) < 512 THEN Err("page buffer too small (<512)")
    ELSE
        LET endian == detect_endian(page) IN
        IF endian = "None" THEN Err("not a Btree meta page: magic not found at 12..16")
        ELSE
            LET pagesize == u32e(endian, Slice(page, 20, 24)) IN
            IF pagesize = 0 \/ pagesize % 512 # 0 THEN Err("implausible pagesize")
            ELSE Ok([endian |-> endian,
                     lsn_file |-> u32e(endian, Slice(page, 0, 4)),
                     lsn_offset |-> u32e(endian, Slice(page, 4, 8)),
                     pgno |-> u32e(endian, Slice(page, 8, 12)),
                     magic |-> u32e(endian, Slice(page, 12, 16)),
                     version |-> u32e(endian, Slice(page, 16, 20)),
                     pagesize |-> pagesize,
                     encrypt_alg |-> B(page, 24),
                     p_type |-> from(B(page, 25)),
                     metaflags |-> B(page, 26),
                     free |-> u32e(endian, Slice(page, 28, 32)),
                     last_pgno |-> u32e(endian, Slice(page, 32, 36)),
                     key_count |-> u32e(endian, Slice(page, 40, 44)),
                     record_count |-> u32e(endian, Slice(page, 44, 48)),
                     flags |-> u32e(endian, Slice(page, 48, 52)),
                     uid |-> Slice(page, 52, 72),
                     minkey |-> u32e(endian, Slice(page, 76, 80)),
                     re_len |-> u32e(endian, Slice(page, 80, 84)),
                     re_pad |-> u32e(endian, Slice(page, 84, 88)),
                     root |-> u32e(endian, Slice(page, 88, 92)),
                     crypto_magic |-> IF Len(page) >= 464
                                      THEN u32e(endian, Slice(page, 460, 464)) ELSE 0,
                     iv |-> IF Len(page) >= 492 THEN Slice(page, 476, 492) ELSE Zeros(16),
                     chksum |-> IF Len(page) >= 516 THEN Slice(page, 496, 516) ELSE Zeros(20)])

\* The first 92 bytes of a meta page as laid out on disk (BtreeMeta's field offsets);
\* the magic and the page size are given as the 4 bytes stored.
MetaBytes(en, m) ==
    Enc32(en, 1) \o Enc32(en, 0) \o Enc32(en, m.pgno) \o
    m.magic \o Enc32(en, 9) \o m.pagesize \o
    <<0, 9, 0, 0>> \o Enc32(en, 0) \o Enc32(en, m.last_pgno) \o
    Zeros(52) \o Enc32(en, m.root)

----------------------------------------------------------------------------
(* entry/parser.rs: the overflow chain readers *)

Min(a, b) == IF a < b THEN a ELSE b

overflow_payload_WholePage(page) == page

\* &page[BTDATAOFF..]
overflow_payload(page) == Slice(page, BTDATAOFF, Len(page))

overflow_advance_NoEndCheck(h, st) ==
    IF st.rem = 0 THEN st
    ELSE IF h.next = 0 THEN [st EXCEPT !.rem = 0]
    ELSE [st EXCEPT !.pg = h.next]

\* the end of one iteration, `out` and `rem` updated: break when nothing is
\* left to read, fail when the chain stops, else move to hdr.next
overflow_advance(h, st) ==
    IF st.rem = 0 THEN st
    ELSE IF h.next = 0 THEN [st EXCEPT !.res = Err("overflow chain ended early")]
    ELSE [st EXCEPT !.pg = h.next]

\* one iteration of read_overflow_chain's loop on its locals st = [pg, rem, out];
\* st.res leaves NoRes when the iteration returns or panics
read_overflow_chain_iter(all_, ps_, e_, st) ==
    IF ~PageInImage(all_, ps_, st.pg) THEN [st EXCEPT !.res = Panic]
    ELSE
        LET page == page_slice(all_, ps_, st.pg)
            h == parse_page_header(page, e_)
        IN  IF ~IsOk(h) THEN [st EXCEPT !.res = h]
            ELSE IF h.val.ptype # Overflow
            THEN [st EXCEPT !.res = Err("expected overflow page")]
            ELSE
                LET payload == overflow_payload(page)
                    take == Min(st.rem, Len(payload))
                IN  overflow_advance(h.val,
                        [st EXCEPT !.out = st.out \o SubSeq(payload, 1, take),
                                   !.rem = st.rem - take])

RECURSIVE read_overflow_chain_while(_, _, _, _)
read_overflow_chain_while(all_, ps_, e_, st) ==
    IF st.res # NoRes THEN st.res
    ELSE IF st.rem = 0 THEN Ok(st.out)
    ELSE read_overflow_chain_while(all_, ps_, e_, read_overflow_chain_iter(all_, ps_, e_, st))

overflow_locals(ref) ==
    [pg |-> ref.first_page, rem |-> ref.total_len, out |-> <<>>, res |-> NoRes]

read_overflow_chain(all_, ps_, e_, ref) ==
    read_overflow_chain_while(all_, ps_, e_, overflow_locals(ref))

\* read_overflow: the same loop, written a second time in the source
read_overflow_iter(all_, ps_, e_, st) ==
    IF ~PageInImage(all_, ps_, st.pg) THEN [st EXCEPT !.res = Panic]
    ELSE
        LET page == page_slice(all_, ps_, st.pg)
            h == parse_page_header(page, e_)
        IN  IF ~IsOk(h) THEN [st EXCEPT !.res = h]
            ELSE IF h.val.ptype # Overflow
            THEN [st EXCEPT !.res = Err("expected overflow page")]
            ELSE
                LET payload == overflow_payload(page)
                    take == Min(st.rem, Len(payload))
                IN  overflow_advance(h.val,
                        [st EXCEPT !.out = st.out \o SubSeq(payload, 1, take),
                                   !.rem = st.rem - take])

RECURSIVE read_overflow_while(_, _, _, _)
read_overflow_while(all_, ps_, e_, st) ==
    IF st.res # NoRes THEN st.res
    ELSE IF st.rem = 0 THEN Ok(st.out)
    ELSE read_overflow_while(all_, ps_, e_, read_overflow_iter(all_, ps_, e_, st))

read_overflow(all_, ps_, e_, br) ==
    read_overflow_while(all_, ps_, e_, overflow_locals(br))

----------------------------------------------------------------------------
(* leaf.rs *)

is_deleted_WrongBit(kind_raw) == (kind_raw \div 64) % 2 = 1

\* (kind_raw & 0x80) != 0
is_deleted(kind_raw) == kind_raw >= 128

KeyData(bytes) == [t |-> "KeyData", bytes |-> bytes]
OverflowItem(first_pg, total_len) ==
    [t |-> "Overflow", first_pg |-> first_pg, total_len |-> total_len]

parse_leaf_entry_RefUnchecked(page, off, e_) ==
    IF off + 3 > Len(page) THEN Err("leaf entry header OOB")
    ELSE
        LET len == u16e(e_, Slice(page, off, off + 2))
            kind_raw == B(page, off + 2)
            deleted == is_deleted(kind_raw)
            kind == kind_raw % 128
        IN  CASE kind = 1 ->
                   IF off + 3 + len > Len(page) THEN Err("KeyData OOB")
                   ELSE Ok([deleted |-> deleted,
                            item |-> KeyData(Slice(page, off + 3, off + 3 + len))])
              [] kind = 3 ->
                   \* &page[start..start + 4] past the page panics
                   IF off + 4 + 8 > Len(page) THEN Panic
                   ELSE Ok([deleted |-> deleted,
                            item |-> OverflowItem(u32e(e_, Slice(page, off + 4, off + 8)),
                                                  u32e(e_, Slice(page, off + 8, off + 12)))])
              [] OTHER -> [tag |-> "Err", err |-> "unknown leaf item kind",
                           k |-> kind, off |-> off]

parse_leaf_entry(page, off, e_) ==
    IF off + 3 > Len(page) THEN Err("leaf entry header OOB")
    ELSE
        LET len == u16e(e_, Slice(page, off, off + 2))
            kind_raw == B(page, off + 2)
            deleted == is_deleted(kind_raw)
            kind == kind_raw % 128
        IN  CASE kind = 1 ->
                   IF off + 3 + len > Len(page) THEN Err("KeyData OOB")
                   ELSE Ok([deleted |-> deleted,
                            item |-> KeyData(Slice(page, off + 3, off + 3 + len))])
              [] kind = 3 ->
                   IF off + 4 + 8 > Len(page) THEN Err("Overflow OOB")
                   ELSE Ok([deleted |-> deleted,
                            item |-> OverflowItem(u32e(e_, Slice(page, off + 4, off + 8)),
                                                  u32e(e_, Slice(page, off + 8, off + 12)))])
              [] OTHER -> [tag |-> "Err", err |-> "unknown leaf item kind",
                           k |-> kind, off |-> off]

----------------------------------------------------------------------------
(* entry/parser.rs: the leaf page extractor *)

\* (BTDATAOFF..lower).step_by(2): the indices 28, 30, ... below lower
slot_indices(lower) ==
    [k \in 1..(IF lower > BTDATAOFF THEN (lower - BTDATAOFF + 1) \div 2 ELSE 0)
        |-> BTDATAOFF + 2 * (k - 1)]

\* each index i reads page[i..i + 2]; a read past the page panics
slot_abs_offsets(page, e_, lower) ==
    LET idx == slot_indices(lower) IN
    IF \E k \in 1..Len(idx) : idx[k] + 2 > Len(page) THEN Panic
    ELSE Ok([k \in 1..Len(idx) |-> u16e(e_, Slice(page, idx[k], idx[k] + 2))])

\* the first loop over offs: the offsets it reports on stderr. It only logs and
\* continues, so it changes nothing the second loop sees. (The source names the
\* header fields entries and hf_offset here; util::PageHeader, the type it is
\* handed, carries them as lower and upper.)
logged_bad_offsets(page, hdr, offs) ==
    {k \in 1..Len(offs) : offs[k] < hdr.upper \/ offs[k] + 3 > Len(page)}

\* a field's bytes: the inline slice copied, or the overflow chain read
materialize(all_, ps_, e_, item) ==
    IF item.t = "KeyData" THEN Ok(item.bytes)
    ELSE read_overflow_chain(all_, ps_, e_,
             [first_page |-> item.first_pg, total_len |-> item.total_len])

NoPend == [some |-> FALSE]
SomePend(en) == [some |-> TRUE, entry |-> en]

pair_step_PendKept(all_, ps_, e_, page, off, st) ==
    LET entry == parse_leaf_entry(page, off, e_) IN
    IF ~IsOk(entry) THEN [st EXCEPT !.res = entry]
    ELSE IF entry.val.deleted THEN st
    ELSE IF ~st.pend.some THEN [st EXCEPT !.pend = SomePend(entry.val)]
    ELSE
        LET key == materialize(all_, ps_, e_, st.pend.entry.item) IN
        IF ~IsOk(key) THEN [st EXCEPT !.res = key]
        ELSE
            LET val == materialize(all_, ps_, e_, entry.val.item) IN
            IF ~IsOk(val) THEN [st EXCEPT !.res = val]
            ELSE [st EXCEPT !.pend = SomePend(entry.val),
                            !.out = Append(st.out, <<key.val, val.val>>)]

\* the body of `for off in offs` on the locals st = [pend, out]; st.res leaves
\* NoRes when the body returns early
pair_step(all_, ps_, e_, page, off, st) ==
    LET entry == parse_leaf_entry(page, off, e_) IN
    IF ~IsOk(entry) THEN [st EXCEPT !.res = entry]
    ELSE IF entry.val.deleted THEN st
    ELSE IF ~st.pend.some THEN [st EXCEPT !.pend = SomePend(entry.val)]
    ELSE
        LET key == materialize(all_, ps_, e_, st.pend.entry.item) IN
        IF ~IsOk(key) THEN [st EXCEPT !.res = key]
        ELSE
            LET val == materialize(all_, ps_, e_, entry.val.item) IN
            IF ~IsOk(val) THEN [st EXCEPT !.res = val]
            ELSE [st EXCEPT !.pend = NoPend,
                            !.out = Append(st.out, <<key.val, val.val>>)]

RECURSIVE pair_loop(_, _, _, _, _, _, _)
pair_loop(all_, ps_, e_, page, offs, i, st) ==
    IF st.res # NoRes THEN st.res
    ELSE IF i > Len(offs) THEN Ok(st.out)    \* a pending key left over is dropped
    ELSE pair_loop(all_, ps_, e_, page, offs, i + 1,
                   pair_step(all_, ps_, e_, page, offs[i], st))

leaf_pairs_on_page(all_, ps_, e_, page, hdr) ==
    IF hdr.ptype # Leaf THEN Err("not a leaf page")
    ELSE
        LET offs == slot_abs_offsets(page, e_, hdr.lower) IN
        IF ~IsOk(offs) THEN offs
        ELSE pair_loop(all_, ps_, e_, page, offs.val, 1,
                       [pend |-> NoPend, out |-> <<>>, res |-> NoRes])

extract_leaf_pairs(all_, ps_, e_, leaf_pgno) ==
    IF ~PageInImage(all_, ps_, leaf_pgno) THEN Panic
    ELSE
        LET page == page_slice(all_, ps_, leaf_pgno)
            hdr == parse_page_header(page, e_)
        IN  IF ~IsOk(hdr) THEN hdr
            ELSE IF hdr.val.ptype # Leaf THEN Err("not a leaf page")
            ELSE leaf_pairs_on_page(all_, ps_, e_, page, hdr.val)

----------------------------------------------------------------------------
(* entry/parser.rs: wallet keys *)

\* Option values
None == [tag |-> "Option::None"]
Some(v) == [tag |-> "Some", val |-> v]
IsSome(x) == x.tag = "Some"

\* A u64 (and a usize, taken as 64 bits wide) is held as its four 16-bit
\* digits, least significant first, so that values up to 2^64 - 1 are exact.
U64Of(x) == <<x % 65536, x \div 65536, 0, 0>>      \* `x as u64` for x below 2^31

\* u16/u32/u64::from_le_bytes(bs) as u64
from_le_bytes(bs) ==
    [k \in 1..4 |-> IF 2 * k <= Len(bs) THEN bs[2 * k - 1] + 256 * bs[2 * k] ELSE 0]

read_compact_size_FdLiteral(s) ==
    IF Len(s) = 0 THEN None
    ELSE
        LET b0 == B(s, 0) IN
        CASE b0 <= 253 -> Some(<<U64Of(b0), 1>>)
          [] b0 = 254 ->
               IF Len(s) >= 5 THEN Some(<<from_le_bytes(Slice(s, 1, 5)), 5>>) ELSE None
          [] OTHER ->
               IF Len(s) >= 9 THEN Some(<<from_le_bytes(Slice(s, 1, 9)), 9>>) ELSE None

\* Some((value, bytes consumed)) or None
read_compact_size(s) ==
    IF Len(s) = 0 THEN None
    ELSE
        LET b0 == B(s, 0) IN
        CASE b0 <= 252 -> Some(<<U64Of(b0), 1>>)
          [] b0 = 253 ->
               IF Len(s) >= 3 THEN Some(<<from_le_bytes(Slice(s, 1, 3)), 3>>) ELSE None
          [] b0 = 254 ->
               IF Len(s) >= 5 THEN Some(<<from_le_bytes(Slice(s, 1, 5)), 5>>) ELSE None
          [] OTHER ->
               IF Len(s) >= 9 THEN Some(<<from_le_bytes(Slice(s, 1, 9)), 9>>) ELSE None

\* a + b on 64-bit words: the digits of the wrapped sum, and the carry out
U64Add(a, b) ==
    LET t1 == a[1] + b[1]
        t2 == a[2] + b[2] + (t1 \div 65536)
        t3 == a[3] + b[3] + (t2 \div 65536)
        t4 == a[4] + b[4] + (t3 \div 65536)
    IN  [sum |-> <<t1 % 65536, t2 % 65536, t3 % 65536, t4 % 65536>>,
         carry |-> t4 \div 65536]

\* a < b on 64-bit words
U64Less(a, b) ==
    \E k \in 1..4 : a[k] < b[k] /\ \A j \in (k + 1)..4 : a[j] = b[j]

\* the value of a word known to be a buffer length
U64ToInt(a) == a[1] + 65536 * a[2]

\* a UTF-8 continuation byte
utf8_cont(b) == 128 <= b /\ b <= 191

\* core::str::from_utf8(bs).is_ok(), for the bytes of bs from index i (1-based) on
RECURSIVE utf8_valid_from(_, _)
utf8_valid_from(bs, i) ==
    IF i > Len(bs) THEN TRUE
    ELSE
        LET b0 == bs[i]
            nxt(k) == IF i + k <= Len(bs) THEN bs[i + k] ELSE 0
        IN  CASE b0 <= 127 -> utf8_valid_from(bs, i + 1)
              [] 194 <= b0 /\ b0 <= 223 ->
                   utf8_cont(nxt(1)) /\ utf8_valid_from(bs, i + 2)
              [] b0 = 224 ->
                   /\ 160 <= nxt(1) /\ nxt(1) <= 191 /\ utf8_cont(nxt(2))
                   /\ utf8_valid_from(bs, i + 3)
              [] (225 <= b0 /\ b0 <= 236) \/ b0 \in {238, 239} ->
                   /\ utf8_cont(nxt(1)) /\ utf8_cont(nxt(2))
                   /\ utf8_valid_from(bs, i + 3)
              [] b0 = 237 ->
                   /\ 128 <= nxt(1) /\ nxt(1) <= 159 /\ utf8_cont(nxt(2))
                   /\ utf8_valid_from(bs, i + 3)
              [] b0 = 240 ->
                   /\ 144 <= nxt(1) /\ nxt(1) <= 191 /\ utf8_cont(nxt(2)) /\ utf8_cont(nxt(3))
                   /\ utf8_valid_from(bs, i + 4)
              [] 241 <= b0 /\ b0 <= 243 ->
                   /\ utf8_cont(nxt(1)) /\ utf8_cont(nxt(2)) /\ utf8_cont(nxt(3))
                   /\ utf8_valid_from(bs, i + 4)
              [] b0 = 244 ->
                   /\ 128 <= nxt(1) /\ nxt(1) <= 143 /\ utf8_cont(nxt(2)) /\ utf8_cont(nxt(3))
                   /\ utf8_valid_from(bs, i + 4)
              [] OTHER -> FALSE

from_utf8_ok(bs) == utf8_valid_from(bs, 1)

\* Some((tag, suffix)) or None. `n + len` is a usize addition: with overflow
\* checks on (debug builds) it panics when it overflows, without them (release
\* builds) it wraps; the tag is held as its bytes.
split_walletdb_key(key, overflow_checks) ==
    LET cs == read_compact_size(key) IN
    IF ~IsSome(cs) THEN None
    ELSE
        LET len == cs.val[1]            \* len as usize
            n == cs.val[2]
            add == U64Add(U64Of(n), len)
        IN  IF add.carry # 0 /\ overflow_checks
            THEN PanicMsg("attempt to add with overflow")
            ELSE IF U64Less(U64Of(Len(key)), add.sum) THEN None
            ELSE
                LET end == U64ToInt(add.sum) IN
                \* &key[n..n + len] with n + len wrapped below n panics
                IF end < n THEN PanicMsg("slice index starts after its end")
                ELSE
                    LET tag_bytes == Slice(key, n, end) IN
                    IF ~from_utf8_ok(tag_bytes) THEN None
                    ELSE Some(<<tag_bytes, Slice(key, end, Len(key))>>)

----------------------------------------------------------------------------
(* main.rs, storage/consistency.rs *)

\* SalvageMode. No function of the crate takes one: DbImageReader, the trait
\* whose methods do, has no implementation, and main is the only driver.
SalvageMode == {"Conservative", "BestEffort"}

main_probe_RootUnchecked(bytes) ==
    IF Len(bytes) < 512 THEN Err("file < 512 bytes")
    ELSE
        LET m == parse_btree_meta_page0(Slice(bytes, 0, Min(Len(bytes), 4096))) IN
        IF ~IsOk(m) THEN m
        ELSE
            LET npages == Len(bytes) \div m.val.pagesize IN
            IF m.val.pgno # 0 THEN PanicMsg("page 0 should be pgno=0")
            ELSE IF ~(npages >= m.val.last_pgno + 1)
            THEN PanicMsg("file shorter than last_pgno")
            ELSE m

\* main up to its loop: the length test, the meta page, the three assertions
main_probe(bytes) ==
    IF Len(bytes) < 512 THEN Err("file < 512 bytes")
    ELSE
        LET m == parse_btree_meta_page0(Slice(bytes, 0, Min(Len(bytes), 4096))) IN
        IF ~IsOk(m) THEN m
        ELSE
            LET npages == Len(bytes) \div m.val.pagesize IN
            IF m.val.pgno # 0 THEN PanicMsg("page 0 should be pgno=0")
            ELSE IF ~(npages >= m.val.last_pgno + 1)
            THEN PanicMsg("file shorter than last_pgno")
            ELSE IF ~(m.val.root # 0 /\ m.val.root <= m.val.last_pgno)
            THEN PanicMsg("root out of range")
            ELSE m

main_page_SkipsFaults(all_, ps_, e_, pg_) ==
    IF ~PageInImage(all_, ps_, pg_) THEN Panic
    ELSE
        LET page == page_slice(all_, ps_, pg_)
            hdr == parse_page_header(page, e_)
        IN  IF ~IsOk(hdr) THEN Ok(<<>>)
            ELSE IF hdr.val.ptype = Leaf
            THEN LET pairs == leaf_pairs_on_page(all_, ps_, e_, page, hdr.val)
                 IN  IF IsErr(pairs) THEN Ok(<<>>) ELSE pairs
            ELSE Ok(<<>>)

\* the body of `for pg in 1..=meta.last_pgno`: the pairs of page pg (none for
\* a page that is not a leaf), or the error `?` returns from main
main_page(all_, ps_, e_, pg_) ==
    IF ~PageInImage(all_, ps_, pg_) THEN Panic
    ELSE
        LET page == page_slice(all_, ps_, pg_)
            hdr == parse_page_header(page, e_)
        IN  IF ~IsOk(hdr) THEN hdr
            ELSE IF hdr.val.ptype = Leaf
            THEN leaf_pairs_on_page(all_, ps_, e_, page, hdr.val)
            ELSE Ok(<<>>)

----------------------------------------------------------------------------
(* Generated file images *)

PageSize == 512     \* the smallest page size parse_btree_meta_page0 accepts

RECURSIVE Concat(_)
Concat(ss) == IF ss = <<>> THEN <<>> ELSE Head(ss) \o Concat(Tail(ss))

MagicBytes(en) == Enc32(en, BTREE_MAGIC)

\* a well-formed meta page for page 0
MetaPage(en, last_pgno, root) ==
    Fit(MetaBytes(en, [pgno |-> 0, magic |-> MagicBytes(en),
                       pagesize |-> Enc32(en, PageSize),
                       last_pgno |-> last_pgno, root |-> root]), PageSize)

\* the payload bytes written on overflow page p: every page and position differs
PayloadOf(p) == [i \in 1..(PageSize - BTDATAOFF) |-> (p * 37 + i) % 251]

OverflowPage(en, p, next) ==
    HeaderBytes(en, Hdr(p, next, 4, 0, 0)) \o PayloadOf(p)

\* a leaf page with no slots
EmptyLeafPage(en, p) ==
    Fit(HeaderBytes(en, Hdr(p, 0, 2, BTDATAOFF, PageSize)), PageSize)

----------------------------------------------------------------------------
(* Bounds of the model *)

MaxSlots == 3       \* slots in a generated slot array
MaxPgno == 2        \* last page number of a generated file image

\* values of the variables a specification does not use
NoRef == [first_page |-> 0, total_len |-> 0]
NoMeta == [endian |-> "None"]

----------------------------------------------------------------------------
(* SpecHdr: parse_page_header applied to generated page slices *)

HdrLens == {0, 27, 28, 64, 512}
HdrFlags == {2, 3, 4, 9, 5, 34}
HdrLowers == {0, 27} \cup (28..(28 + 2 * MaxSlots + 1)) \cup {511, 512, 514}
HdrUppers == {0, 27, 28, 31, 28 + 2 * MaxSlots, 63, 64, 65, 512, 513}

InitHdr ==
    /\ e \in Endian
    /\ \E len \in HdrLens, flags \in HdrFlags, lower \in HdrLowers, upper \in HdrUppers :
          /\ cfg = [kind |-> "slice", len |-> len, flags |-> flags,
                    lower |-> lower, upper |-> upper]
          /\ all = Fit(HeaderBytes(e, Hdr(1, 0, flags, lower, upper)), len)
    /\ ps = Len(all)
    /\ mode = "Conservative"
    /\ pc = "parse_page_header"
    /\ r = NoRef /\ pg = 0 /\ rem = 0 /\ out = <<>>
    /\ visited = <<>> /\ delivered = <<>>
    /\ res = NoRes
    /\ arg = 0
    /\ meta = NoMeta

ParsePageHeader ==
    /\ pc = "parse_page_header"
    /\ res' = parse_page_header(all, e)
    /\ pc' = "done"
    /\ UNCHANGED <<arg, all, ps, e, mode, r, pg, rem, out, visited, delivered, cfg, meta>>

NextHdr == ParsePageHeader

SpecHdr == InitHdr /\ [][NextHdr]_vars

HeaderInvariantErrors == {"lower too small", "lower > upper", "upper beyond page"}

\* C10: parse_page_header fails with "short page" on a slice shorter than 28
\* bytes; every header it returns for a Leaf or Internal page has
\* 28 <= lower <= upper <= page length and nslots = (lower - 28) / 2, with the
\* fields as written on the page; and a Leaf/Internal page of at least 28 bytes
\* that breaks one of the three bounds is rejected with a header-invariant error.
C10_HeaderInvariant ==
    pc = "done" =>
        /\ cfg.len < 28 => res = Err("short page")
        /\ (IsOk(res) /\ res.val.ptype \in {Leaf, Internal}) =>
              /\ 28 <= res.val.lower
              /\ res.val.lower <= res.val.upper
              /\ res.val.upper <= cfg.len
              /\ res.val.nslots = (res.val.lower - 28) \div 2
              /\ res.val.lower = cfg.lower /\ res.val.upper = cfg.upper
        /\ (/\ cfg.len >= 28
            /\ cfg.flags % 32 \in {2, 3}
            /\ ~(28 <= cfg.lower /\ cfg.lower <= cfg.upper /\ cfg.upper <= cfg.len)) =>
              (IsErr(res) /\ res.err \in HeaderInvariantErrors)

\* a Leaf header with an odd lower and two whole slots was accepted
C10_Witness ==
    /\ pc = "done"
    /\ IsOk(res)
    /\ res.val.ptype = Leaf
    /\ res.val.lower = 33
    /\ res.val.nslots = 2
    /\ res.val.upper = 64
----------------------------------------------------------------------------
(* SpecProbe: parse_btree_meta_page0 applied to generated first pages *)

ProbeLens == {511, 512, 516}
MagicByteVals == {0, 5, 49, 98}
\* stored page-size bytes: 0, 512 and 2^25+512 in either order, and implausible sizes
ProbeSizes ==
    [1..4 -> {0, 2}] \cup {<<1, 2, 0, 0>>, <<0, 0, 2, 1>>, <<0, 1, 0, 0>>, <<0, 0, 1, 0>>}

InitProbe ==
    /\ \E len \in ProbeLens, magic \in [1..4 -> MagicByteVals], size \in ProbeSizes :
          /\ cfg = [kind |-> "meta", len |-> len, magic |-> magic, pagesize |-> size]
          /\ all = Fit(MetaBytes("Le", [pgno |-> 0, magic |-> magic, pagesize |-> size,
                                        last_pgno |-> 2, root |-> 1]), len)
    /\ e = "Le"
    /\ ps = Len(all)
    /\ mode = "Conservative"
    /\ pc = "parse_btree_meta_page0"
    /\ r = NoRef /\ pg = 0 /\ rem = 0 /\ out = <<>>
    /\ visited = <<>> /\ delivered = <<>>
    /\ res = NoRes
    /\ arg = 0
    /\ meta = NoMeta

ParseBtreeMetaPage0 ==
    /\ pc = "parse_btree_meta_page0"
    /\ res' = parse_btree_meta_page0(all)
    /\ pc' = "done"
    /\ UNCHANGED <<arg, all, ps, e, mode, r, pg, rem, out, visited, delivered, cfg, meta>>

NextProbe == ParseBtreeMetaPage0

SpecProbe == InitProbe /\ [][NextProbe]_vars

\* C9: on a buffer of at least 512 bytes parse_btree_meta_page0 succeeds exactly
\* when the bytes at 12..16 are 0x00053162 in little- or big-endian order and the
\* page size at 20..24, read in that order, is a nonzero multiple of 512; the
\* endianness it reports is the order that matched (never both); without the
\* magic it fails with the magic-not-found error, with a bad size with the
\* implausible-pagesize error.
C9_ProbeAcceptance ==
    (pc = "done" /\ cfg.len >= 512) =>
        LET le == cfg.magic = <<98, 49, 5, 0>>
            be == cfg.magic = <<0, 5, 49, 98>>
            b == cfg.pagesize
            size == IF le THEN b[1] + 256 * (b[2] + 256 * (b[3] + 256 * b[4]))
                    ELSE b[4] + 256 * (b[3] + 256 * (b[2] + 256 * b[1]))
            plausible == size # 0 /\ size % 512 = 0
        IN  /\ ~(le /\ be)
            /\ IsOk(res) <=> ((le \/ be) /\ plausible)
            /\ IsOk(res) => /\ res.val.endian = (IF le THEN "Le" ELSE "Be")
                            /\ res.val.pagesize = size
            /\ ~(le \/ be) => res = Err("not a Btree meta page: magic not found at 12..16")
            /\ ((le \/ be) /\ ~plausible) => res = Err("implausible pagesize")

\* a big-endian meta page with page size 512 was accepted as big-endian
C9_Witness ==
    /\ pc = "done"
    /\ cfg.len >= 512
    /\ IsOk(res)
    /\ res.val.endian = "Be"
    /\ res.val.pagesize = 512
----------------------------------------------------------------------------
(* SpecOvf: the overflow readers run iteration by iteration over generated chains *)

OvfFns == {"read_overflow_chain", "read_overflow"}
\* a page after the meta page: an overflow page with some next pointer (0 ends the
\* chain, MaxPgno + 1 leaves the file, p or less points back), or a leaf page
OvfPageKinds == [kind : {"ovf"}, next : 0..(MaxPgno + 1)] \cup {[kind |-> "leaf", next |-> 0]}
\* total_len: nothing, one byte, one payload, one byte more, more than two
\* payloads, more than the payloads of all the pages of the file
OvfLens ==
    {0, 1, PageSize - BTDATAOFF, PageSize - BTDATAOFF + 1, 3 * PageSize,
     (MaxPgno + 2) * PageSize}

OvfPageBytes(en, p, d) ==
    IF d.kind = "ovf" THEN OverflowPage(en, p, d.next) ELSE EmptyLeafPage(en, p)

InitOvf ==
    /\ e \in Endian
    /\ ps = PageSize
    /\ \E pages \in [1..MaxPgno -> OvfPageKinds], fn \in OvfFns :
          /\ cfg = [kind |-> "chain", pages |-> pages, fn |-> fn]
          /\ all = MetaPage(e, MaxPgno, 1) \o
                   Concat([p \in 1..MaxPgno |-> OvfPageBytes(e, p, pages[p])])
          /\ pc = fn
    /\ r \in [first_page : 0..(MaxPgno + 1), total_len : OvfLens]
    /\ pg = r.first_page
    /\ rem = r.total_len
    /\ out = <<>>
    /\ mode = "Conservative"
    /\ visited = <<>> /\ delivered = <<>>
    /\ res = NoRes
    /\ arg = 0
    /\ meta = NoMeta

OvfStep(st) ==
    /\ visited' = IF PageInImage(all, ps, pg) THEN Append(visited, pg) ELSE visited
    /\ pg' = st.pg /\ rem' = st.rem /\ out' = st.out
    /\ res' = st.res
    /\ pc' = IF st.res # NoRes THEN "done" ELSE pc
    /\ UNCHANGED <<arg, all, ps, e, mode, r, delivered, cfg, meta>>

\* one pass through the body of `while rem > 0`
ReadOverflowChainIter ==
    /\ pc = "read_overflow_chain"
    /\ rem > 0
    /\ OvfStep(read_overflow_chain_iter(all, ps, e,
                   [pg |-> pg, rem |-> rem, out |-> out, res |-> NoRes]))

\* the loop is left with rem = 0: Ok(out)
ReadOverflowChainReturn ==
    /\ pc = "read_overflow_chain"
    /\ rem = 0
    /\ res' = Ok(out)
    /\ pc' = "done"
    /\ UNCHANGED <<arg, all, ps, e, mode, r, pg, rem, out, visited, delivered, cfg, meta>>

ReadOverflowIter ==
    /\ pc = "read_overflow"
    /\ rem > 0
    /\ OvfStep(read_overflow_iter(all, ps, e,
                   [pg |-> pg, rem |-> rem, out |-> out, res |-> NoRes]))

ReadOverflowReturn ==
    /\ pc = "read_overflow"
    /\ rem = 0
    /\ res' = Ok(out)
    /\ pc' = "done"
    /\ UNCHANGED <<arg, all, ps, e, mode, r, pg, rem, out, visited, delivered, cfg, meta>>

NextOvf ==
    \/ ReadOverflowChainIter
    \/ ReadOverflowChainReturn
    \/ ReadOverflowIter
    \/ ReadOverflowReturn

SpecOvf == InitOvf /\ [][NextOvf]_vars

\* what the image was built with
ChainKind(p) == IF p = 0 THEN "meta" ELSE cfg.pages[p].kind
ChainNext(p) == IF p = 0 THEN 0 ELSE cfg.pages[p].next
Last(s) == s[Len(s)]

\* C4: when an overflow reader succeeds, the buffer has exactly total_len bytes,
\* the pages it read are first_page and then each page's next pointer in turn,
\* and the buffer is the first total_len bytes of those pages' payloads
\* [28, page_size) concatenated in that order.
C4_OverflowReconstruction ==
    (pc = "done" /\ IsOk(res)) =>
        /\ Len(res.val) = r.total_len
        /\ (visited = <<>>) <=> (r.total_len = 0)
        /\ visited # <<>> => visited[1] = r.first_page
        /\ \A i \in 1..(Len(visited) - 1) : visited[i + 1] = ChainNext(visited[i])
        /\ \A i \in 1..Len(visited) : ChainKind(visited[i]) = "ovf"
        /\ Len(Concat([i \in 1..Len(visited) |-> PayloadOf(visited[i])])) >= r.total_len
        /\ res.val = SubSeq(Concat([i \in 1..Len(visited) |-> PayloadOf(visited[i])]),
                            1, r.total_len)

\* a value spread over two different pages was put together
C4_Witness ==
    /\ pc = "done"
    /\ IsOk(res)
    /\ r.total_len = PageSize - BTDATAOFF + 1
    /\ Len(visited) = 2
    /\ visited[1] # visited[2]

\* C5: when bytes are still needed after the payload of an Overflow page whose
\* next pointer is 0 has been taken, the read fails with the chain-ended-early
\* error and returns no buffer; no read succeeds with fewer than total_len bytes.
C5_TruncatedChainFails ==
    /\ (/\ pc = "done"
        /\ visited # <<>>
        /\ \A i \in 1..Len(visited) : ChainKind(visited[i]) = "ovf"
        /\ ChainNext(Last(visited)) = 0
        /\ Len(visited) * (PageSize - BTDATAOFF) < r.total_len)
       => res = Err("overflow chain ended early")
    /\ (pc = "done" /\ IsOk(res)) => Len(res.val) >= r.total_len
    /\ (pc = "done" /\ res = Err("overflow chain ended early")) =>
           (visited # <<>> /\ ChainNext(Last(visited)) = 0)

\* a chain of two pages ended with bytes still owed
C5_Witness ==
    /\ pc = "done"
    /\ res = Err("overflow chain ended early")
    /\ Len(visited) = 2
    /\ r.total_len = 3 * PageSize

\* C15 as claimed: an overflow read never indexes past the image, and when the
\* reference's first_page, or the next pointer of the last overflow page read
\* with bytes still owed, is a page number outside the file, the read ends
\* with an error value.
C15_PageAccessInsideImage ==
    /\ ~IsPanic(res)
    /\ (pc = "done" /\ r.total_len > 0 /\ r.first_page > MaxPgno) => IsErr(res)
    /\ (/\ pc = "done"
        /\ visited # <<>>
        /\ \A i \in 1..Len(visited) : ChainKind(visited[i]) = "ovf"
        /\ ChainNext(Last(visited)) > MaxPgno
        /\ Len(visited) * (PageSize - BTDATAOFF) < r.total_len) => IsErr(res)

\* every pass through the loop body ends the call or leaves fewer bytes to read
OverflowIterationProgress ==
    [][(pc \in OvfFns /\ rem > 0) => (pc' = "done" \/ rem' < rem)]_vars

\* C16 as claimed: whatever the next pointers are, cyclic or pointing back, an
\* overflow read visits no more pages than the file holds. (That each iteration
\* fails or reduces the remaining count is OverflowIterationProgress.)
C16_VisitsBoundedByFile ==
    Len(visited) <= MaxPgno + 1

----------------------------------------------------------------------------
(* SpecLeaf: extract_leaf_pairs on page 1 of generated images.  Page 1 is a    *)
(* leaf page, page 2 an overflow page chained to page 3, page 3 ends the chain. *)

\* what a slot of the generated page points at
SlotChoices ==
    {"a", "b",          \* an inline entry holding "a" / "b"
     "ovf",             \* an overflow entry: 485 bytes starting on page 2
     "trunc",           \* an overflow entry: 485 bytes starting on page 3, which ends the chain
     "del",             \* a deleted inline entry (kind 0x81)
     "delbadref",       \* a deleted overflow entry (kind 0x83) naming page 99
     "delunk",          \* a deleted entry of kind 2 (kind byte 0x82)
     "deloob",          \* a deleted inline entry whose length runs past the page
     "low",             \* an offset below upper, where stale bytes form an inline "z"
     "high"}            \* an offset two bytes before the end of the page
DeletedChoices == {"del", "delbadref", "delunk", "deloob"}
BadOffsetChoices == {"low", "high"}

\* slot arrays longer than MaxSlots that are generated as well
LongLayouts ==
    {<<"a", "b", "ovf", "a", "b">>, <<"a", "del", "b", "ovf", "a">>,
     <<"ovf", "a", "b", "ovf">>, <<"a", "b", "b", "a", "trunc">>}

Layouts == UNION {[1..n -> SlotChoices] : n \in 0..MaxSlots} \cup LongLayouts

StaleOff == 64          \* where the stale entry lies in the free gap
OvfValueLen == 485      \* total_len of the generated overflow entries

EntryBytes(en, c) ==
    CASE c = "a" -> Enc16(en, 1) \o <<1, 97>>
      [] c = "b" -> Enc16(en, 1) \o <<1, 98>>
      [] c = "ovf" -> Enc16(en, 0) \o <<3, 0>> \o Enc32(en, 2) \o Enc32(en, OvfValueLen)
      [] c = "trunc" -> Enc16(en, 0) \o <<3, 0>> \o Enc32(en, 3) \o Enc32(en, OvfValueLen)
      [] c = "del" -> Enc16(en, 1) \o <<129, 100>>
      [] c = "delbadref" -> Enc16(en, 0) \o <<131, 0>> \o Enc32(en, 99) \o Enc32(en, 7)
      [] c = "delunk" -> Enc16(en, 1) \o <<130, 100>>
      [] c = "deloob" -> Enc16(en, 600) \o <<129, 100>>
      [] OTHER -> <<>>

LeafUpper(slots) == PageSize - 12 * Len(slots)
SlotOff(slots, k) ==
    CASE slots[k] = "low" -> StaleOff
      [] slots[k] = "high" -> PageSize - 2
      [] OTHER -> LeafUpper(slots) + 12 * (k - 1)

\* header, slot array, a stale inline entry "z" in the free gap, then one
\* 12-byte cell per slot from upper to the end of the page
LeafPageOf(en, p, offs, cells) ==
    LET n == Len(cells)
        upper == PageSize - 12 * n
        head == HeaderBytes(en, Hdr(p, 0, 2, BTDATAOFF + 2 * n, upper)) \o
                Concat([k \in 1..n |-> Enc16(en, offs[k])])
        gap == Fit(head, StaleOff) \o Enc16(en, 1) \o <<1, 122>>
    IN  Fit(gap, upper) \o Concat([k \in 1..n |-> Fit(cells[k], 12)])

LeafPage(en, p, slots) ==
    LeafPageOf(en, p, [k \in 1..Len(slots) |-> SlotOff(slots, k)],
               [k \in 1..Len(slots) |-> EntryBytes(en, slots[k])])

InitLeaf ==
    /\ e \in Endian
    /\ ps = PageSize
    /\ \E slots \in Layouts :
          /\ cfg = [kind |-> "leaf", slots |-> slots]
          /\ all = MetaPage(e, 3, 1) \o LeafPage(e, 1, slots) \o
                   OverflowPage(e, 2, 3) \o OverflowPage(e, 3, 0)
    /\ pc = "extract_leaf_pairs"
    /\ pg = 1
    /\ mode = "Conservative"
    /\ r = NoRef /\ rem = 0 /\ out = <<>>
    /\ visited = <<>> /\ delivered = <<>>
    /\ res = NoRes
    /\ arg = 0
    /\ meta = NoMeta

ExtractLeafPairs ==
    /\ pc = "extract_leaf_pairs"
    /\ res' = extract_leaf_pairs(all, ps, e, pg)
    /\ pc' = "done"
    /\ UNCHANGED <<arg, all, ps, e, mode, r, pg, rem, out, visited, delivered, cfg, meta>>

NextLeaf == ExtractLeafPairs

SpecLeaf == InitLeaf /\ [][NextLeaf]_vars

\* the bytes each kind of live entry stands for
ValueOf(c) ==
    CASE c = "a" -> <<97>>
      [] c = "b" -> <<98>>
      [] c = "low" -> <<122>>
      [] c = "ovf" -> SubSeq(PayloadOf(2) \o PayloadOf(3), 1, OvfValueLen)
      [] OTHER -> <<>>

LiveOf(slots) == SelectSeq(slots, LAMBDA c : c \notin DeletedChoices)

\* C1: on a leaf page whose slots all decode, with n non-deleted entries
\* e1..en in slot order, leaf_pairs_on_page returns floor(n/2) pairs, the i-th
\* being (e(2i-1), e(2i)); a trailing en is dropped without being read, so the
\* call succeeds exactly when every paired overflow entry can be materialized.
\* (Pages with slot offsets out of range are the subject of C2.)
C1_PositionalPairing ==
    (/\ pc = "done"
     /\ \A k \in 1..Len(cfg.slots) :
           cfg.slots[k] \notin (BadOffsetChoices \cup {"delunk", "deloob"})) =>
        LET live == LiveOf(cfg.slots)
            np == Len(live) \div 2
        IN  /\ IsOk(res) <=> (\A i \in 1..(2 * np) : live[i] # "trunc")
            /\ IsOk(res) =>
                  /\ Len(res.val) = np
                  /\ \A i \in 1..np :
                        res.val[i] = <<ValueOf(live[2 * i - 1]), ValueOf(live[2 * i])>>

\* five live entries gave two pairs, the fifth entry dropped
C1_Witness ==
    /\ pc = "done"
    /\ cfg.slots = <<"a", "b", "ovf", "a", "b">>
    /\ IsOk(res)
    /\ Len(res.val) = 2
    /\ res.val[2][2] = <<97>>

\* the image with the slot array of page 1 rewritten to the slots in `keep`
RewriteSlots(page, en, offs) ==
    Slice(page, 0, 24) \o Enc16(en, BTDATAOFF + 2 * Len(offs)) \o Slice(page, 26, 28) \o
    Concat([k \in 1..Len(offs) |-> Enc16(en, offs[k])]) \o
    Slice(page, BTDATAOFF + 2 * Len(offs), Len(page))

ReplacePage(all_, ps_, p, page) ==
    Slice(all_, 0, p * ps_) \o page \o Slice(all_, (p + 1) * ps_, Len(all_))

KeptOffsets(slots, drop) ==
    LET idx == SelectSeq([k \in 1..Len(slots) |-> k], LAMBDA k : slots[k] \notin drop)
    IN  [j \in 1..Len(idx) |-> SlotOff(slots, idx[j])]

WithoutSlots(drop) ==
    ReplacePage(all, ps, 1,
        RewriteSlots(page_slice(all, ps, 1), e, KeptOffsets(cfg.slots, drop)))

\* C2 as claimed: a slot offset outside [upper, page_size - 3) is skipped, so
\* the result is the one for the page without its bad slots.
C2_BadSlotsSkipped ==
    pc = "done" => res = extract_leaf_pairs(WithoutSlots(BadOffsetChoices), ps, e, 1)

\* C3 as claimed: the result is the one for the page without its deleted
\* slots, whatever the deleted entries hold.
C3_DeletedSkippedWhateverHeld ==
    pc = "done" => res = extract_leaf_pairs(WithoutSlots(DeletedChoices), ps, e, 1)

\* C3 as amended: when every deleted entry decodes (kind bits 1 or 3, an inline
\* field inside the page), the result is the one for the page without its
\* deleted slots, whatever length and page reference the deleted entries hold.
C3_DecodableDeletedSkipped ==
    (/\ pc = "done"
     /\ \A k \in 1..Len(cfg.slots) : cfg.slots[k] \notin {"delunk", "deloob"}) =>
        res = extract_leaf_pairs(WithoutSlots(DeletedChoices), ps, e, 1)

\* a deleted overflow entry naming a page outside the file sat between a key
\* and its value, and the pair was returned
C3_Witness ==
    /\ pc = "done"
    /\ cfg.slots = <<"a", "delbadref", "b">>
    /\ res = Ok(<< <<(<<97>>), (<<98>>)>> >>)
----------------------------------------------------------------------------
(* SpecMain: main run over generated file images, one page per step *)

MainPageKinds ==
    {"leaf1",       \* a leaf page holding the pair "a" -> "b"
     "leafovf",     \* a leaf page: "a" -> 5 bytes on the overflow chain at the next page
     "leaftrunc",   \* a leaf page: "a" -> 2 * PageSize bytes on the chain at the next page
     "leafoob",     \* a leaf page: "a" -> 5 bytes on a chain at a page past the file
     "leafunk",     \* a leaf page whose only entry has kind 2
     "badhdr",      \* a leaf page with lower > upper
     "ovf",         \* an overflow page that ends its chain
     "internal",    \* an internal page without slots
     "other"}       \* a page of type 13

\* the page after p, the first page after the last
TargetOf(p) == (p % MaxPgno) + 1

RefBytes(en, first, total) == Enc16(en, 0) \o <<3, 0>> \o Enc32(en, first) \o Enc32(en, total)
AutoOffs(n) == [k \in 1..n |-> PageSize - 12 * n + 12 * (k - 1)]

MainPageBytes(en, p, kind) ==
    CASE kind = "leaf1" -> LeafPage(en, p, <<"a", "b">>)
      [] kind = "leafovf" ->
            LeafPageOf(en, p, AutoOffs(2), <<EntryBytes(en, "a"), RefBytes(en, TargetOf(p), 5)>>)
      [] kind = "leaftrunc" ->
            LeafPageOf(en, p, AutoOffs(2),
                       <<EntryBytes(en, "a"), RefBytes(en, TargetOf(p), 2 * PageSize)>>)
      [] kind = "leafoob" ->
            LeafPageOf(en, p, AutoOffs(2), <<EntryBytes(en, "a"), RefBytes(en, MaxPgno + 1, 5)>>)
      [] kind = "leafunk" -> LeafPageOf(en, p, AutoOffs(1), <<Enc16(en, 1) \o <<2, 100>> >>)
      [] kind = "badhdr" -> Fit(HeaderBytes(en, Hdr(p, 0, 2, 40, 30)), PageSize)
      [] kind = "ovf" -> OverflowPage(en, p, 0)
      [] kind = "internal" -> Fit(HeaderBytes(en, Hdr(p, 0, 3, BTDATAOFF, PageSize)), PageSize)
      [] OTHER -> Fit(HeaderBytes(en, Hdr(p, 0, 13, 0, 0)), PageSize)

\* page 0 of the generated images: well formed, or malformed at the top level
MainMetaKinds ==
    {"ok",          \* last_pgno = MaxPgno, root = 1
     "rootlast",    \* root = last_pgno
     "tiny",        \* the file is the first 511 bytes of a well-formed meta page
     "badmagic",    \* no magic at 12..16
     "badsize",     \* page size 0
     "short",       \* last_pgno = MaxPgno + 1 in a file of MaxPgno + 1 pages
     "root0",       \* root = 0
     "rootbig",     \* root = last_pgno + 1
     "pgno1"}       \* page 0 numbered 1
WellFormedMetaKinds == {"ok", "rootlast"}

MainMetaBytes(en, mk) ==
    Fit(MetaBytes(en, [pgno |-> IF mk = "pgno1" THEN 1 ELSE 0,
                       magic |-> IF mk = "badmagic" THEN <<0, 0, 0, 0>> ELSE MagicBytes(en),
                       pagesize |-> Enc32(en, IF mk = "badsize" THEN 0 ELSE PageSize),
                       last_pgno |-> IF mk = "short" THEN MaxPgno + 1 ELSE MaxPgno,
                       root |-> CASE mk = "root0" -> 0
                                  [] mk = "rootlast" -> MaxPgno
                                  [] mk = "rootbig" -> MaxPgno + 1
                                  [] OTHER -> 1]), PageSize)

InitMain ==
    /\ mode \in SalvageMode
    /\ \E en \in Endian, mk \in MainMetaKinds, pages \in [1..MaxPgno -> MainPageKinds] :
          /\ mk \notin WellFormedMetaKinds => \A p \in 1..MaxPgno : pages[p] = "leaf1"
          /\ cfg = [kind |-> "file", en |-> en, meta |-> mk, pages |-> pages]
          /\ all = IF mk = "tiny" THEN SubSeq(MainMetaBytes(en, mk), 1, 511)
                   ELSE MainMetaBytes(en, mk) \o
                        Concat([p \in 1..MaxPgno |-> MainPageBytes(en, p, pages[p])])
    /\ pc = "Start"
    /\ ps = 0 /\ e = "None" /\ meta = NoMeta
    /\ pg = 0
    /\ r = NoRef /\ rem = 0 /\ out = <<>>
    /\ visited = <<>> /\ delivered = <<>>
    /\ res = NoRes
    /\ arg = 0

\* main before its loop
MainProbe ==
    /\ pc = "Start"
    /\ LET m == main_probe(all) IN
       IF IsOk(m)
       THEN /\ meta' = m.val /\ ps' = m.val.pagesize /\ e' = m.val.endian
            /\ pg' = 1 /\ pc' = "Traversing" /\ res' = res
       ELSE /\ res' = m
            /\ pc' = IF IsPanic(m) THEN "Panicked" ELSE "Aborted"
            /\ UNCHANGED <<meta, ps, e, pg>>
    /\ UNCHANGED <<arg, all, mode, r, rem, out, visited, delivered, cfg>>

\* one iteration of main's loop
MainVisitPage ==
    /\ pc = "Traversing"
    /\ pg <= meta.last_pgno
    /\ visited' = Append(visited, pg)
    /\ LET got == main_page(all, ps, e, pg) IN
       IF IsOk(got)
       THEN /\ delivered' = delivered \o
                    [i \in 1..Len(got.val) |-> [page |-> pg, kv |-> got.val[i]]]
            /\ pg' = pg + 1
            /\ UNCHANGED <<pc, res>>
       ELSE /\ res' = got
            /\ pc' = IF IsPanic(got) THEN "Panicked" ELSE "Aborted"
            /\ UNCHANGED <<delivered, pg>>
    /\ UNCHANGED <<arg, all, ps, e, mode, r, rem, out, cfg, meta>>

\* the loop is over: the total is printed and main returns Ok(())
MainReturn ==
    /\ pc = "Traversing"
    /\ pg > meta.last_pgno
    /\ res' = Ok(Len(delivered))
    /\ pc' = "Done"
    /\ UNCHANGED <<arg, all, ps, e, mode, r, pg, rem, out, visited, delivered, cfg, meta>>

NextMain ==
    \/ MainProbe
    \/ MainVisitPage
    \/ MainReturn

SpecMain == InitMain /\ [][NextMain]_vars

\* what reading page p of the generated image must run into: "none", "panic"
\* or the error
FaultOf(p) ==
    LET k == cfg.pages[p]
        tk == cfg.pages[TargetOf(p)]
        chain(atEnd) == CASE tk = "ovf" -> atEnd
                          [] tk = "badhdr" -> "lower > upper"
                          [] OTHER -> "expected overflow page"
    IN  CASE k = "badhdr" -> "lower > upper"
          [] k = "leafunk" -> "unknown leaf item kind"
          [] k = "leafovf" -> chain("none")
          [] k = "leaftrunc" -> chain("overflow chain ended early")
          [] k = "leafoob" -> "panic"
          [] OTHER -> "none"

\* C6: under Conservative mode the first page whose decoding or extraction
\* fails ends the read in Aborted with that error: no page was decoded after a
\* faulting page, every delivered record comes from a page before the first
\* fault, and nothing can happen once the driver is Aborted.
C6_ConservativeAbortsOnFirstFault ==
    mode = "Conservative" =>
        /\ \A i \in 1..(Len(visited) - 1) : FaultOf(visited[i]) = "none"
        /\ \A i \in 1..Len(delivered) :
              \A q \in 1..delivered[i].page : FaultOf(q) = "none"
        /\ (visited # <<>> /\ FaultOf(Last(visited)) \notin {"none", "panic"}) =>
              /\ pc = "Aborted"
              /\ IsErr(res) /\ res.err = FaultOf(Last(visited))
        /\ pc = "Aborted" => ~ENABLED NextMain

\* page 1 gave its pair, page 2 broke the header invariant, the read is Aborted
C6_Witness ==
    /\ mode = "Conservative"
    /\ pc = "Aborted"
    /\ visited = <<1, 2>>
    /\ res = Err("lower > upper")
    /\ Len(delivered) = 1
    /\ delivered[1].page = 1

\* C7 as claimed: under BestEffort a fault on a page never ends the read in
\* Aborted (only a malformed top-level structure does, before any page is
\* read), and a finished read delivered the records of every fault-free leaf.
C7_BestEffortNeverAborts ==
    mode = "BestEffort" =>
        /\ pc = "Aborted" => visited = <<>>
        /\ pc \in {"Done", "Aborted"} /\ visited # <<>> =>
              \A p \in 1..MaxPgno :
                  (cfg.pages[p] = "leaf1") => \E i \in 1..Len(delivered) : delivered[i].page = p

\* the leaf pages the root leads to in a generated image, whose internal pages
\* have no child: the root itself when it is a leaf page
RootOf == IF cfg.meta = "rootlast" THEN MaxPgno ELSE 1
ReachableLeaves ==
    IF cfg.pages[RootOf] \in {"leaf1", "leafovf", "leaftrunc", "leafoob", "leafunk"}
    THEN {RootOf} ELSE {}

\* C8 as claimed: every record delivered comes from a leaf page reachable from
\* the root through internal-page child pointers.
C8_OnlyReachableLeaves ==
    \A i \in 1..Len(delivered) :
        /\ delivered[i].page \in ReachableLeaves
        /\ cfg.pages[delivered[i].page] # "internal"

\* how main must end on each malformed page 0 of the generated images
TopLevelFaultOf(mk) ==
    CASE mk = "tiny" -> Err("file < 512 bytes")
      [] mk = "badmagic" -> Err("not a Btree meta page: magic not found at 12..16")
      [] mk = "badsize" -> Err("implausible pagesize")
      [] mk = "short" -> PanicMsg("file shorter than last_pgno")
      [] mk \in {"root0", "rootbig"} -> PanicMsg("root out of range")
      [] mk = "pgno1" -> PanicMsg("page 0 should be pgno=0")
      [] OTHER -> NoRes

\* C11: whatever the mode, a file shorter than 512 bytes, a missing magic, an
\* implausible page size, a file of fewer than last_pgno + 1 pages, or a root
\* that is 0 or above last_pgno ends main before its loop: with the error of
\* the length test or of parse_btree_meta_page0, or with the message of the
\* failed assertion; no page after page 0 was read, no pair was delivered, and
\* nothing happens afterwards. A well-formed page 0 lets the loop start.
C11_TopLevelFatal ==
    /\ cfg.meta \notin WellFormedMetaKinds =>
          /\ visited = <<>> /\ delivered = <<>>
          /\ pc \in {"Start", "Aborted", "Panicked"}
          /\ pc # "Start" =>
                /\ res = TopLevelFaultOf(cfg.meta)
                /\ pc = (IF IsErr(res) THEN "Aborted" ELSE "Panicked")
                /\ ~ENABLED NextMain
    /\ (cfg.meta \in WellFormedMetaKinds /\ visited = <<>> /\ pc # "Start") =>
          (pc = "Traversing" /\ res = NoRes /\ meta.last_pgno = MaxPgno)

\* under BestEffort, a root above last_pgno ended the run before any page was read
C11_Witness ==
    /\ mode = "BestEffort"
    /\ cfg.meta = "rootbig"
    /\ pc = "Panicked"
    /\ res = PanicMsg("root out of range")
    /\ visited = <<>> /\ delivered = <<>>

----------------------------------------------------------------------------
(* SpecEntry: parse_leaf_entry applied to generated buffers and offsets. The  *)
(* offsets are those a 16-bit slot can hold, as every caller passes.           *)

EntryPageLens == {0, 2, 3, 4, 5, 11, 12, 13, 16, 24}
EntryOffs == 0..13
EntryLenFields == {0, 1, 2, 9, 600, 65535}
EntryKindBytes == {0, 1, 2, 3, 4, 127, 128, 129, 131, 255}

\* the bytes after the kind byte: read as pad, first_pg = 0x01020304 and
\* total_len = 0x0a0b0c0d by an overflow entry, as data by an inline entry
EntryBody(en) ==
    <<77>> \o Enc32(en, 16909060) \o Enc32(en, 168496141) \o [i \in 1..15 |-> 20 + i]

InitEntry ==
    /\ e \in Endian
    /\ \E plen \in EntryPageLens, o \in EntryOffs, len \in EntryLenFields,
          kb \in EntryKindBytes :
          /\ cfg = [kind |-> "entry", plen |-> plen, off |-> o, len |-> len, kindbyte |-> kb]
          /\ all = Fit(Zeros(o) \o Enc16(e, len) \o <<kb>> \o EntryBody(e), plen)
          /\ arg = o
    /\ ps = Len(all)
    /\ mode = "Conservative"
    /\ pc = "parse_leaf_entry"
    /\ r = NoRef /\ pg = 0 /\ rem = 0 /\ out = <<>>
    /\ visited = <<>> /\ delivered = <<>>
    /\ res = NoRes
    /\ meta = NoMeta

ParseLeafEntry ==
    /\ pc = "parse_leaf_entry"
    /\ res' = parse_leaf_entry(all, arg, e)
    /\ pc' = "done"
    /\ UNCHANGED <<arg, all, ps, e, mode, r, pg, rem, out, visited, delivered, cfg, meta>>

NextEntry == ParseLeafEntry

SpecEntry == InitEntry /\ [][NextEntry]_vars

\* C12: parse_leaf_entry never indexes outside the buffer (it never panics); it
\* returns an inline field only when [off+3, off+3+len) lies inside the page,
\* and then those bytes; an overflow reference only when [off+4, off+12) lies
\* inside the page, and then the two words stored there; the deleted flag is
\* the high bit of the kind byte; a header, field or reference leaving the
\* page fails with an out-of-bounds error; a kind byte that can be read and
\* whose low 7 bits are neither 1 nor 3 fails with the unknown-kind error.
C12_EntryBoundsAndKind ==
    pc = "done" =>
        LET kb == cfg.kindbyte
            k == IF kb >= 128 THEN kb - 128 ELSE kb
            hdrIn == cfg.off + 3 <= cfg.plen
            fieldIn == cfg.off + 3 + cfg.len <= cfg.plen
            refIn == cfg.off + 12 <= cfg.plen
        IN  /\ ~IsPanic(res)
            /\ IsOk(res) <=> (hdrIn /\ ((k = 1 /\ fieldIn) \/ (k = 3 /\ refIn)))
            /\ IsOk(res) => res.val.deleted = (kb >= 128)
            /\ (IsOk(res) /\ k = 1) =>
                  res.val.item = KeyData(SubSeq(EntryBody(e), 1, cfg.len))
            /\ (IsOk(res) /\ k = 3) =>
                  res.val.item = OverflowItem(16909060, 168496141)
            /\ ~hdrIn => res = Err("leaf entry header OOB")
            /\ (hdrIn /\ k = 1 /\ ~fieldIn) => res = Err("KeyData OOB")
            /\ (hdrIn /\ k = 3 /\ ~refIn) => res = Err("Overflow OOB")
            /\ (hdrIn /\ k \notin {1, 3}) =>
                  (IsErr(res) /\ res.err = "unknown leaf item kind" /\ res.k = k)

\* an overflow reference one byte short of fitting the page was refused, with
\* the kind byte inside the page
C12_Witness ==
    /\ pc = "done"
    /\ cfg.kindbyte = 3
    /\ cfg.off + 11 = cfg.plen
    /\ res = Err("Overflow OOB")

----------------------------------------------------------------------------
(* SpecCompact: read_compact_size applied to minimal-width encodings, whole  *)
(* or cut short                                                               *)

\* the 16-bit digits the generated lengths are made of
CompactDigits == {0, 1, 252, 253, 255, 256, 65535}
CompactCuts == 0..11

\* the bytes of the digits d[lo..hi], least significant byte first
DigitBytes(d, lo, hi) ==
    Concat([k \in 1..(hi - lo + 1) |->
               <<d[lo + k - 1] % 256, d[lo + k - 1] \div 256>>])

\* the minimal-width compact-size encoding of the length with digits d
CompactSizeBytes(d) ==
    IF d[2] = 0 /\ d[3] = 0 /\ d[4] = 0
    THEN IF d[1] <= 252 THEN <<d[1]>> ELSE <<253>> \o DigitBytes(d, 1, 1)
    ELSE IF d[3] = 0 /\ d[4] = 0 THEN <<254>> \o DigitBytes(d, 1, 2)
    ELSE <<255>> \o DigitBytes(d, 1, 4)

InitCompact ==
    /\ \E d \in [1..4 -> CompactDigits], cut \in CompactCuts :
          /\ cfg = [kind |-> "compact", L |-> d, cut |-> cut]
          /\ all = Fit(CompactSizeBytes(d) \o <<171, 205>>,
                       Min(cut, Len(CompactSizeBytes(d)) + 2))
    /\ e = "Le"
    /\ ps = Len(all)
    /\ mode = "Conservative"
    /\ pc = "read_compact_size"
    /\ r = NoRef /\ pg = 0 /\ rem = 0 /\ out = <<>>
    /\ visited = <<>> /\ delivered = <<>>
    /\ res = NoRes
    /\ arg = 0
    /\ meta = NoMeta

ReadCompactSize ==
    /\ pc = "read_compact_size"
    /\ res' = read_compact_size(all)
    /\ pc' = "done"
    /\ UNCHANGED <<arg, all, ps, e, mode, r, pg, rem, out, visited, delivered, cfg, meta>>

NextCompact == ReadCompactSize

SpecCompact == InitCompact /\ [][NextCompact]_vars

\* the prefix width the claim assigns to a length: 1 up to 252, 3 up to 65535,
\* 5 up to 2^32 - 1, 9 from 2^32
PrefixWidth(d) ==
    CASE d[3] # 0 \/ d[4] # 0 -> 9
      [] d[2] # 0 -> 5
      [] d[1] >= 253 -> 3
      [] OTHER -> 1

\* C13: read_compact_size on the minimal-width encoding of L, followed by
\* anything, returns (L, width) with the width the claim gives; on the same
\* bytes cut shorter than that width (the width the first byte announces), or
\* on no bytes at all, it returns None.
C13_CompactSizeRoundTrip ==
    pc = "done" =>
        LET w == PrefixWidth(cfg.L) IN
        /\ Len(all) >= w => res = Some(<<cfg.L, w>>)
        /\ Len(all) < w => res = None
        /\ Len(CompactSizeBytes(cfg.L)) = w

\* 2^32 was read back from its nine bytes
C13_Witness ==
    /\ pc = "done"
    /\ cfg.L = <<0, 0, 1, 0>>
    /\ all = <<255, 0, 0, 0, 0, 1, 0, 0, 0>>
    /\ res = Some(<< <<0, 0, 1, 0>>, 9>>)

----------------------------------------------------------------------------
(* SpecType: the two derivations of a PageType applied to the same code      *)

\* the upper 27 bits of the generated flags words
FlagsHighBits == {0, 1, 5, 2047}

InitType ==
    /\ e \in Endian
    /\ \E c \in 0..255, h \in FlagsHighBits :
          /\ cfg = [kind |-> "type", code |-> c, high |-> h]
          /\ arg = c                                  \* the type byte
          /\ all = Enc32(e, 32 * h + (c % 32))         \* the flags word as stored
    /\ ps = Len(all)
    /\ mode = "Conservative"
    /\ pc = "page_type"
    /\ r = NoRef /\ pg = 0 /\ rem = 0 /\ out = <<>>
    /\ visited = <<>> /\ delivered = <<>>
    /\ res = NoRes
    /\ meta = NoMeta

\* PageType::from on the type byte and PageType::from_flags on the flags
\* word, each followed by PageType::code
DerivePageType ==
    /\ pc = "page_type"
    /\ LET t == from(arg)
           f == from_flags(u32e(e, all))
       IN  res' = Ok([from |-> t, from_flags |-> f,
                      from_code |-> code(t), from_flags_code |-> code(f)])
    /\ pc' = "done"
    /\ UNCHANGED <<arg, all, ps, e, mode, r, pg, rem, out, visited, delivered, cfg, meta>>

NextType == DerivePageType

SpecType == InitType /\ [][NextType]_vars

CanonicalTypes == {Meta, Internal, Leaf, Overflow}

\* C14 as claimed: a code below 32 that either derivation classifies as Meta,
\* Internal, Leaf or Overflow is classified the same by the other, and the
\* code PageType::code returns for that type is mapped back to it by both.
C14_DerivationsAgree ==
    (pc = "done" /\ cfg.code < 32) =>
        /\ (res.val.from \in CanonicalTypes \/ res.val.from_flags \in CanonicalTypes) =>
              res.val.from = res.val.from_flags
        /\ res.val.from \in CanonicalTypes =>
              /\ from(res.val.from_code) = res.val.from
              /\ from_flags(res.val.from_code) = res.val.from
        /\ res.val.from_flags \in CanonicalTypes =>
              /\ from(res.val.from_flags_code) = res.val.from_flags
              /\ from_flags(res.val.from_flags_code) = res.val.from_flags

----------------------------------------------------------------------------
(* SpecSlots: the slot array of generated leaf pages read as                 *)
(* leaf_pairs_on_page reads it, after parse_page_header accepted the page    *)

SlotLowers == BTDATAOFF..(BTDATAOFF + 2 * MaxSlots + 1)
SlotUppers == {BTDATAOFF + 2 * MaxSlots + 1, 64, PageSize}
SlotValues == {100, 500}

InitSlots ==
    /\ e \in Endian
    /\ \E lower \in SlotLowers, upper \in SlotUppers,
          vals \in [1..(MaxSlots + 1) -> SlotValues] :
          /\ cfg = [kind |-> "slots", lower |-> lower, upper |-> upper, vals |-> vals]
          /\ all = Fit(HeaderBytes(e, Hdr(1, 0, 2, lower, upper)) \o
                       Concat([k \in 1..(MaxSlots + 1) |-> Enc16(e, vals[k])]), PageSize)
    /\ ps = PageSize
    /\ mode = "Conservative"
    /\ pc = "slot_abs_offsets"
    /\ r = NoRef /\ pg = 1 /\ rem = 0 /\ out = <<>>
    /\ visited = <<>> /\ delivered = <<>>
    /\ res = NoRes
    /\ arg = 0
    /\ meta = NoMeta

\* the header is parsed, then `offs` is collected from the slot array; the
\* result keeps the header's nslots and the indices read beside the offsets
SlotAbsOffsets ==
    /\ pc = "slot_abs_offsets"
    /\ LET hdr == parse_page_header(all, e) IN
       res' = IF ~IsOk(hdr) THEN hdr
              ELSE LET offs == slot_abs_offsets(all, e, hdr.val.lower) IN
                   IF ~IsOk(offs) THEN offs
                   ELSE Ok([nslots |-> hdr.val.nslots,
                            read_at |-> slot_indices(hdr.val.lower),
                            offs |-> offs.val])
    /\ pc' = "done"
    /\ UNCHANGED <<arg, all, ps, e, mode, r, pg, rem, out, visited, delivered, cfg, meta>>

NextSlots == SlotAbsOffsets

SpecSlots == InitSlots /\ [][NextSlots]_vars

\* C17 as claimed: on an accepted Leaf header the extractor reads exactly
\* (lower - 28) / 2 slot offsets, the header's nslots, and each 2-byte slot it
\* reads lies inside [28, lower).
C17_SlotsReadMatchCount ==
    (pc = "done" /\ IsOk(res)) =>
        /\ Len(res.val.offs) = (cfg.lower - 28) \div 2
        /\ Len(res.val.offs) = res.val.nslots
        /\ \A k \in 1..Len(res.val.read_at) :
              28 <= res.val.read_at[k] /\ res.val.read_at[k] + 2 <= cfg.lower

----------------------------------------------------------------------------
(* SpecKey: split_walletdb_key applied to generated wallet keys              *)

\* tags, with whether they are UTF-8 text
KeyTags ==
    {[bytes |-> <<>>, utf8 |-> TRUE],
     [bytes |-> <<107, 101, 121>>, utf8 |-> TRUE],              \* "key"
     [bytes |-> <<195, 169>>, utf8 |-> TRUE],                   \* U+00E9
     [bytes |-> <<226, 130, 172>>, utf8 |-> TRUE],              \* U+20AC
     [bytes |-> <<240, 159, 146, 150>>, utf8 |-> TRUE],         \* U+1F496
     [bytes |-> <<255>>, utf8 |-> FALSE],
     [bytes |-> <<128>>, utf8 |-> FALSE],                       \* a lone continuation byte
     [bytes |-> <<195>>, utf8 |-> FALSE],                       \* a sequence cut short
     [bytes |-> <<192, 128>>, utf8 |-> FALSE],                  \* an overlong form
     [bytes |-> <<237, 160, 128>>, utf8 |-> FALSE],             \* a surrogate
     [bytes |-> <<244, 144, 128, 128>>, utf8 |-> FALSE],        \* above U+10FFFF
     [bytes |-> <<107, 255, 121>>, utf8 |-> FALSE]}
KeySuffixes == {<<>>, <<1, 2>>, <<255>>}

\* declared lengths beyond any generated key: 65535, 2^32, 2^63, 2^64 - 10,
\* 2^64 - 9, 2^64 - 1
KeyLongLens ==
    {<<65535, 0, 0, 0>>, <<0, 0, 1, 0>>, <<0, 0, 0, 32768>>,
     <<65526, 65535, 65535, 65535>>, <<65527, 65535, 65535, 65535>>,
     <<65535, 65535, 65535, 65535>>}

\* the prefix: minimal, or the 3-byte or 9-byte form of the same length
KeyPrefixForms == {"min", "fd", "ff"}

KeyPrefixBytes(d, form) ==
    CASE form = "fd" /\ d[2] = 0 /\ d[3] = 0 /\ d[4] = 0 -> <<253>> \o DigitBytes(d, 1, 1)
      [] form = "ff" -> <<255>> \o DigitBytes(d, 1, 4)
      [] OTHER -> CompactSizeBytes(d)

InitKey ==
    /\ \E tag \in KeyTags, suffix \in KeySuffixes, form \in KeyPrefixForms :
       \E d \in {U64Of(Len(tag.bytes))} \cup KeyLongLens :
          /\ cfg = [kind |-> "key", tag |-> tag, suffix |-> suffix, declared |-> d,
                    prefix |-> KeyPrefixBytes(d, form)]
          /\ all = KeyPrefixBytes(d, form) \o tag.bytes \o suffix
    /\ e = "Le"
    /\ ps = Len(all)
    /\ mode = "Conservative"
    /\ pc = "split_walletdb_key"
    /\ r = NoRef /\ pg = 0 /\ rem = 0 /\ out = <<>>
    /\ visited = <<>> /\ delivered = <<>>
    /\ res = NoRes
    /\ arg = 0
    /\ meta = NoMeta

\* the call, in a build with or without overflow checks
SplitWalletdbKey ==
    /\ pc = "split_walletdb_key"
    /\ \E overflow_checks \in BOOLEAN : res' = split_walletdb_key(all, overflow_checks)
    /\ pc' = "done"
    /\ UNCHANGED <<arg, all, ps, e, mode, r, pg, rem, out, visited, delivered, cfg, meta>>

NextKey == SplitWalletdbKey

SpecKey == InitKey /\ [][NextKey]_vars

\* C18 as claimed: split_walletdb_key never panics; a key whose prefix declares
\* more tag bytes than follow the prefix gives None, for declared lengths up to
\* 2^64 - 1; a key with an exact tag gives (tag, suffix) when the tag is UTF-8
\* and None when it is not; and whenever (tag, suffix) is returned, prefix, tag
\* and suffix together are the key.
C18_SplitKeyTotal ==
    pc = "done" =>
        /\ ~IsPanic(res)
        /\ cfg.declared \in KeyLongLens => res = None
        /\ (cfg.declared \notin KeyLongLens /\ cfg.tag.utf8) =>
              res = Some(<<cfg.tag.bytes, cfg.suffix>>)
        /\ (cfg.declared \notin KeyLongLens /\ ~cfg.tag.utf8) => res = None
        /\ IsSome(res) => cfg.prefix \o res.val[1] \o res.val[2] = all

====
